---- MODULE Spec2Model ----
(***************************************************************************)
(* A model of SERA's pipeline controller (sera/main.py) and of its two     *)
(* dataset-curation tools (sera/datagen/data/filter.py and scale.py).      *)
(*                                                                         *)
(* Paths are tuples of strings: Div(p, n) is pathlib's p / n.  The stage   *)
(* executors of sera.datagen.* are collaborators whose code is not part of *)
(* the sources modelled here; they are modelled as returning normally,     *)
(* with the deterministic artifact names the specification gives them.     *)
(***************************************************************************)
EXTENDS Integers, Sequences, FiniteSets, TLC

VARIABLES
    \* ---- sera/main.py: one experiment folder, a sequence of runs ----
    pc,          \* position of the current run inside Experiment._run_pipeline
    stage,       \* the stage name handed to Experiment.run
    stage_idx,   \* stage_map.get(stage)
    threshold,   \* cfg.eval.compare_patch_threshold of the current run
    self,        \* the Experiment object's artifact attributes
    calls,       \* the _run_* methods invoked by the current run, in order
    exec,        \* the collaborators invoked by the current run, in order
    writes,      \* the paths written by the current run, in order
    disk,        \* the paths that exist in the experiment folder
    runs,        \* number of runs started on the folder
    scrapes,     \* number of scrape_synthetic_prs calls, over all runs
    yamlWrites,  \* number of save_yaml(stage_two_instances_fp) calls, over all runs
    reads,       \* the attributes of self read by the current run, with their values
    \* ---- filter.py / scale.py: invocations of the curation tools ----
    opc,         \* opc[p]: position of invocation p inside its tool's main()
    tool,        \* tool[p]: "filter" or "scale"
    dest,        \* dest[p]: the output path (new_fp of filter.py, fp of scale.py)
    payload,     \* payload[p]: the instance ids the invocation is about to write
    err,         \* err[p]: <<exception type, source line>> once p has raised
    atOutput,    \* atOutput[p]: whether dest[p] existed when p reached its output step
    wrote,       \* wrote[p]: p has opened dest[p] for writing
    fs,          \* fs[path]: the output files (existence, times opened "w", content)
    invocations, \* number of tool invocations started
    \* ---- filter.py main(): the arguments and locals of invocation 1 ----
    filter_mode, \* args.filter_mode
    folder,      \* args.folder: the trajectory folders' listings and .pred files
    loaded_dataset,
    cursor,      \* index of the next folder / trajectory the loop will take
    remove_ids,
    \* ---- scale.py main(): the arguments and locals of invocation 1 ----
    scale_type,  \* args.type
    args_number, \* args.number, a float held as an exact fraction
    args_threshold, \* args.threshold, in percent; 0 when not given
    total_ds,    \* the loaded corpus
    number,      \* the integer target count of line 117
    new_dataset, \* scale_repos: the trajectories appended so far
    repo_order,  \* scale_repos: the shuffled repositories not yet visited
    \* ---- filter.py analyze_diff(): one call ----
    diff_files,  \* the diff the patch text was rendered from
    diff_text,   \* the argument of the call
    stats        \* its return value, Unset before the call

pipeVars == <<pc, stage, stage_idx, threshold, self, calls, exec, writes, disk,
              runs, scrapes, yamlWrites, reads>>

toolVars == <<opc, tool, dest, payload, err, atOutput, wrote, fs, invocations>>

filterVars == <<filter_mode, folder, loaded_dataset, cursor, remove_ids>>

scaleVars == <<scale_type, args_number, args_threshold, total_ds, number,
               new_dataset, repo_order>>

diffVars == <<diff_files, diff_text, stats>>

vars == <<pipeVars, toolVars, filterVars, scaleVars, diffVars>>

\* ------------------------------------------------------------------ bounds

\* Runs of the pipeline on the same experiment folder.
MaxRuns == 3

\* Invocations of the curation tools against the same directory.
MaxInvocations == 3

\* Trajectory folders handed to filter.py (-f).
MaxFolders == 2

\* Length of the enumerated message lists of a trajectory.
MaxMessages == 2

\* Trajectories in a corpus given to scale.py.
MaxCorpus == 3

\* Lines in a hunk of an enumerated diff.
MaxHunkLines == 2

\* ------------------------------------------------------------ sera/main.py

stage_map ==
    [pipeline |-> -1, generate |-> 0, distill_stage_one |-> 1,
     distill_stage_two |-> 2, eval |-> 3, postprocess |-> 4]

\* Stage names a caller may pass: the six of stage_map and two that are not.
StageNames == DOMAIN stage_map \cup {"train", "Eval"}

Thresholds == {"0.5", "1.0"}

Unset == <<>>

Div(path, name) == Append(path, name)

data_dir == <<"expt", "data">>

NoAttrs ==
    [stage_one_output_dir |-> Unset, stage_one_instances_fp |-> Unset,
     stage_two_output_dir |-> Unset, stage_two_instances_fp |-> Unset,
     report_fp |-> Unset]

\* distill_method(config, folder, stage, metadata_only): the pair it returns.
\* The names depend on the stage alone, not on metadata_only.
DistillMethod(stg, metadata_only) ==
    [output_dir |-> <<"expt", "traj", stg>>,
     instances_fp |-> Div(data_dir, IF stg = "stage_one"
                                      THEN "stage_one_instances.yaml"
                                      ELSE "stage_two_instances.yaml")]

\* What distill_method writes: its trajectories, unless metadata_only.
DistillWrites(stg, metadata_only) ==
    IF metadata_only THEN <<>> ELSE <<DistillMethod(stg, metadata_only).output_dir>>

GenerateOut == <<"expt", "generate">>

\* format_and_save(config, traj_dir, report_path, out_dir): the file it returns.
FormatAndSave(traj_dir, report_path, out_dir) ==
    out_dir \o <<"formatted", traj_dir[Len(traj_dir)]>>

Flag(b) == IF b THEN "True" ELSE "False"

\* self.<attr> is evaluated: the attribute and the value found.  (Python
\* raises AttributeError when the attribute was never assigned.)
Read(attr) == [attr |-> attr, value |-> self[attr]]

Range(s) == {s[i] : i \in 1..Len(s)}

\* The skip flag _run_pipeline passes to the stage of index i.
SkipMutGeq(idx, i) == idx >= i
Skip(idx, i) == idx > i

Call(name, i) == [stage |-> name, skip |-> Skip(stage_idx, i)]

\* main(): Experiment(cfg, folder) followed by Experiment.run(stage).  An
\* unknown name raises ValueError before _run_pipeline is entered.
RunMutNoValidation(s, t) ==
    /\ pc \in {"idle", "done", "raised"}
    /\ runs < MaxRuns
    /\ runs' = runs + 1
    /\ stage' = s
    /\ threshold' = t
    /\ self' = NoAttrs
    /\ calls' = <<>>
    /\ exec' = <<>>
    /\ writes' = <<>>
    /\ reads' = <<>>
    /\ stage_idx' = IF s \in DOMAIN stage_map THEN stage_map[s] ELSE -1
    /\ pc' = "generate"
    /\ UNCHANGED <<disk, scrapes, yamlWrites>>
Run(s, t) ==
    /\ pc \in {"idle", "done", "raised"}
    /\ runs < MaxRuns
    /\ runs' = runs + 1
    /\ stage' = s
    /\ threshold' = t
    /\ self' = NoAttrs
    /\ calls' = <<>>
    /\ exec' = <<>>
    /\ writes' = <<>>
    /\ reads' = <<>>
    /\ IF s \notin DOMAIN stage_map
         THEN /\ pc' = "raised"
              /\ stage_idx' = stage_idx
         ELSE /\ pc' = "generate"
              /\ stage_idx' = stage_map[s]
    /\ UNCHANGED <<disk, scrapes, yamlWrites>>

run_generate ==
    /\ pc = "generate"
    /\ calls' = Append(calls, Call("generate", 0))
    /\ IF ~Skip(stage_idx, 0)
         THEN /\ exec' = Append(exec, <<"generate_method">>)
              /\ writes' = Append(writes, GenerateOut)
              /\ disk' = disk \cup {GenerateOut}
         ELSE UNCHANGED <<exec, writes, disk>>
    /\ pc' = "distill_one"
    /\ UNCHANGED <<stage, stage_idx, threshold, self, runs, scrapes, yamlWrites,
                   reads>>

run_distill_oneMutReturnsWhenSkipped ==
    /\ pc = "distill_one"
    /\ LET skip == Skip(stage_idx, 1)
           ret == DistillMethod("stage_one", skip)
           w == DistillWrites("stage_one", skip)
       IN /\ calls' = Append(calls, Call("distill_stage_one", 1))
          /\ IF skip
               THEN UNCHANGED <<exec, writes, disk, self>>
               ELSE /\ exec' = Append(exec, <<"distill_method", "stage_one", Flag(skip)>>)
                    /\ writes' = writes \o w
                    /\ disk' = disk \cup Range(w)
                    /\ self' = [self EXCEPT !.stage_one_output_dir = ret.output_dir,
                                            !.stage_one_instances_fp = ret.instances_fp]
    /\ pc' = "distill_two"
    /\ UNCHANGED <<stage, stage_idx, threshold, runs, scrapes, yamlWrites, reads>>
run_distill_one ==
    /\ pc = "distill_one"
    /\ LET skip == Skip(stage_idx, 1)
           ret == DistillMethod("stage_one", skip)
           w == DistillWrites("stage_one", skip)
       IN /\ calls' = Append(calls, Call("distill_stage_one", 1))
          /\ exec' = Append(exec, <<"distill_method", "stage_one", Flag(skip)>>)
          /\ writes' = writes \o w
          /\ disk' = disk \cup Range(w)
          /\ self' = [self EXCEPT !.stage_one_output_dir = ret.output_dir,
                                  !.stage_one_instances_fp = ret.instances_fp]
    /\ pc' = "distill_two"
    /\ UNCHANGED <<stage, stage_idx, threshold, runs, scrapes, yamlWrites, reads>>

\* The scrape-and-save guard of _run_distill_two (line 74).
NeedsScrapeMutNoExistsCheck(skip, fp) == ~skip
NeedsScrape(skip, fp) == ~skip /\ fp \notin disk

run_distill_two ==
    /\ pc = "distill_two"
    /\ LET skip == Skip(stage_idx, 2)
           fp == Div(data_dir, "stage_two_instances.yaml")
           scrape == NeedsScrape(skip, fp)
           ret == DistillMethod("stage_two", skip)
           w == (IF scrape THEN <<fp>> ELSE <<>>) \o DistillWrites("stage_two", skip)
       IN /\ calls' = Append(calls, Call("distill_stage_two", 2))
          /\ exec' = exec
                     \o (IF scrape
                           THEN << <<"scrape_synthetic_prs">>, <<"save_yaml">> >>
                           ELSE <<>>)
                     \o << <<"distill_method", "stage_two", Flag(skip)>> >>
          /\ reads' = reads \o (IF scrape
                                 THEN <<Read("stage_one_instances_fp"),
                                        Read("stage_one_output_dir")>>
                                 ELSE <<>>)
          /\ scrapes' = IF scrape THEN scrapes + 1 ELSE scrapes
          /\ yamlWrites' = IF scrape THEN yamlWrites + 1 ELSE yamlWrites
          /\ writes' = writes \o w
          /\ disk' = disk \cup Range(w)
          /\ self' = [self EXCEPT !.stage_two_output_dir = ret.output_dir,
                                  !.stage_two_instances_fp = ret.instances_fp]
    /\ pc' = "eval"
    /\ UNCHANGED <<stage, stage_idx, threshold, runs>>

ReportFp(dir, t) == dir \o <<"report_t", t, ".json">>

run_evalMutSkipLosesReport ==
    /\ pc = "eval"
    /\ LET skip == Skip(stage_idx, 3)
           report_fp == ReportFp(self.stage_two_output_dir, threshold)
       IN /\ calls' = Append(calls, Call("eval", 3))
          /\ reads' = reads \o <<Read("stage_two_output_dir")>>
                             \o (IF skip
                                   THEN <<>>
                                   ELSE <<Read("stage_two_instances_fp"),
                                          Read("stage_two_output_dir")>>)
          /\ IF skip
               THEN UNCHANGED <<self, exec, writes, disk>>
               ELSE /\ exec' = exec \o << <<"eval_loop">>, <<"dump_json">> >>
                    /\ writes' = Append(writes, report_fp)
                    /\ disk' = disk \cup {report_fp}
                    /\ self' = [self EXCEPT !.report_fp = report_fp]
    /\ pc' = "postprocess"
    /\ UNCHANGED <<stage, stage_idx, threshold, runs, scrapes, yamlWrites>>
run_evalMutInverted ==
    /\ pc = "eval"
    /\ LET skip == Skip(stage_idx, 3)
           report_fp == ReportFp(self.stage_two_output_dir, threshold)
       IN /\ calls' = Append(calls, Call("eval", 3))
          /\ reads' = reads \o <<Read("stage_two_output_dir")>>
                             \o (IF skip
                                   THEN <<>>
                                   ELSE <<Read("stage_two_instances_fp"),
                                          Read("stage_two_output_dir")>>)
          /\ self' = [self EXCEPT !.report_fp = report_fp]
          /\ IF ~skip
               THEN UNCHANGED <<exec, writes, disk>>
               ELSE /\ exec' = exec \o << <<"eval_loop">>, <<"dump_json">> >>
                    /\ writes' = Append(writes, report_fp)
                    /\ disk' = disk \cup {report_fp}
    /\ pc' = "postprocess"
    /\ UNCHANGED <<stage, stage_idx, threshold, runs, scrapes, yamlWrites>>
run_eval ==
    /\ pc = "eval"
    /\ LET skip == Skip(stage_idx, 3)
           report_fp == ReportFp(self.stage_two_output_dir, threshold)
       IN /\ calls' = Append(calls, Call("eval", 3))
          /\ reads' = reads \o <<Read("stage_two_output_dir")>>
                             \o (IF skip
                                   THEN <<>>
                                   ELSE <<Read("stage_two_instances_fp"),
                                          Read("stage_two_output_dir")>>)
          /\ self' = [self EXCEPT !.report_fp = report_fp]
          /\ IF skip
               THEN UNCHANGED <<exec, writes, disk>>
               ELSE /\ exec' = exec \o << <<"eval_loop">>, <<"dump_json">> >>
                    /\ writes' = Append(writes, report_fp)
                    /\ disk' = disk \cup {report_fp}
    /\ pc' = "postprocess"
    /\ UNCHANGED <<stage, stage_idx, threshold, runs, scrapes, yamlWrites>>

\* _run_postprocess ignores its skip argument: it formats both stages' output.
run_postprocess ==
    /\ pc = "postprocess"
    /\ LET stage_one_fp == FormatAndSave(self.stage_one_output_dir, Unset, data_dir)
           stage_two_fp == FormatAndSave(self.stage_two_output_dir, self.report_fp,
                                         data_dir)
       IN /\ calls' = Append(calls, Call("postprocess", 4))
          /\ reads' = reads \o <<Read("stage_one_output_dir"),
                                  Read("stage_two_output_dir"), Read("report_fp")>>
          /\ exec' = exec \o << <<"format_and_save", "stage_one", "no report">>,
                               <<"format_and_save", "stage_two", "report">> >>
          /\ writes' = writes \o <<stage_one_fp, stage_two_fp>>
          /\ disk' = disk \cup {stage_one_fp, stage_two_fp}
    /\ pc' = "done"
    /\ UNCHANGED <<stage, stage_idx, threshold, self, runs, scrapes, yamlWrites>>

PipeInit ==
    /\ pc = "idle"
    /\ stage = "pipeline"
    /\ stage_idx = -1
    /\ threshold = "0.5"
    /\ self = NoAttrs
    /\ calls = <<>>
    /\ exec = <<>>
    /\ writes = <<>>
    /\ disk = {}
    /\ runs = 0
    /\ scrapes = 0
    /\ reads = <<>>
    /\ yamlWrites = 0

\* --------------------------------------------------------------- filter.py

PATCH_EDIT_MAX == 40

TOOL_CALL_TOKEN_MAX == 600

\* A text is a tuple of pieces: the characters "+", "-", "@", "\n" and
\* "\f", the words "diff --git" and "new file mode" as one piece each, and
\* other text.

\* The line boundaries of str.splitlines() in the alphabet of the texts: the
\* newline and the form feed.  (It also cuts at \r, \v, \x1c-\x1e, \x85,
\* \u2028 and \u2029, which no text here contains.)
line_boundaries == {"\n", "\f"}

\* The pieces of text[lo..hi] cut at every boundary: one more chunk than
\* boundaries, computed by halves (joining the chunk a cut left open).
RECURSIVE chunks(_, _, _)
JoinChunks(left, right) ==
    SubSeq(left, 1, Len(left) - 1) \o <<left[Len(left)] \o right[1]>> \o Tail(right)
chunks(text, lo, hi) ==
    IF lo > hi
      THEN << <<>> >>
      ELSE IF lo = hi
             THEN IF text[lo] \in line_boundaries
                    THEN << <<>>, <<>> >>
                    ELSE << <<text[lo]>> >>
             ELSE JoinChunks(chunks(text, lo, (lo + hi) \div 2),
                             chunks(text, (lo + hi) \div 2 + 1, hi))

\* str.splitlines(): no empty last line for a text that ends with a newline.
splitlines(text) ==
    LET c == chunks(text, 1, Len(text))
    IN IF c[Len(c)] = <<>> THEN SubSeq(c, 1, Len(c) - 1) ELSE c

\* str.startswith(prefix)
startswith(line, prefix) ==
    /\ Len(line) >= Len(prefix)
    /\ SubSeq(line, 1, Len(prefix)) = prefix

\* One iteration of analyze_diff's loop: what the line adds to the counters.
\* (current_file_is_new is assigned by the loop and never read.)
analyze_line(line) ==
    LET metadata == \/ startswith(line, <<"+", "+", "+">>)
                    \/ startswith(line, <<"-", "-", "-">>)
                    \/ startswith(line, <<"diff --git">>)
                    \/ startswith(line, <<"@", "@">>)
        is_added == /\ ~metadata
                    /\ startswith(line, <<"+">>)
                    /\ ~startswith(line, <<"+", "+", "+">>)
        is_deleted == /\ ~metadata
                      /\ startswith(line, <<"-">>)
                      /\ ~startswith(line, <<"-", "-", "-">>)
    IN [added_lines |-> IF is_added THEN 1 ELSE 0,
        deleted_lines |-> IF is_deleted THEN 1 ELSE 0,
        new_files |-> IF startswith(line, <<"new file mode">>) THEN 1 ELSE 0]

AddStats(a, b) ==
    [added_lines |-> a.added_lines + b.added_lines,
     deleted_lines |-> a.deleted_lines + b.deleted_lines,
     new_files |-> a.new_files + b.new_files]

\* The counters after the loop has taken lines[lo..hi], summed by halves.
RECURSIVE analyze_lines(_, _, _)
analyze_lines(lines, lo, hi) ==
    IF lo > hi
      THEN [added_lines |-> 0, deleted_lines |-> 0, new_files |-> 0]
      ELSE IF lo = hi
             THEN analyze_line(lines[lo])
             ELSE AddStats(analyze_lines(lines, lo, (lo + hi) \div 2),
                           analyze_lines(lines, (lo + hi) \div 2 + 1, hi))

analyze_diff(patch_text) ==
    LET lines == splitlines(patch_text)
    IN analyze_lines(lines, 1, Len(lines))

\* count_tokens(tokenizer, text): the tokenizer's count for the text.  A text
\* of a message carries that count; the tokenizer itself is a collaborator.
count_tokens_params == <<"tokenizer", "text">>

\* A call count_tokens(*call_args): Python binds the arguments to the
\* parameters first and raises TypeError when a required one is left unbound.
count_tokens(call_args) ==
    IF Len(call_args) # Len(count_tokens_params)
      THEN [raised |-> TRUE, value |-> 0]
      ELSE [raised |-> FALSE, value |-> call_args[Len(call_args)].tokens]

\* The inner loop of the user_length branch (lines 138-143) from message i on:
\* the accumulated cur_lengths, or the exception count_tokens raised.
RECURSIVE user_lengths_from(_, _, _)
user_lengths_from(messages, i, cur_lengths) ==
    IF i > Len(messages)
      THEN [raised |-> FALSE, value |-> cur_lengths]
      ELSE LET msg == messages[i]
           IN IF msg.role = "user"
                THEN IF msg.content.has_target_prefix
                       THEN [raised |-> FALSE, value |-> cur_lengths]
                       ELSE LET n == count_tokens(<<msg.content>>)
                            IN IF n.raised
                                 THEN n
                                 ELSE user_lengths_from(messages, i + 1,
                                                        cur_lengths + n.value)
                ELSE user_lengths_from(messages, i + 1, cur_lengths)

\* The artifact of one instance in a trajectory folder: its .pred file is
\* missing, or cannot be parsed (or has no "model_patch"), or gives a patch;
\* the patch <<>> is the empty text (or null), which `if patch:` passes over.
Missing == [kind |-> "missing", patch |-> <<>>]

Unparsable == [kind |-> "unparsable", patch |-> <<>>]

Pred(patch) == [kind |-> "pred", patch |-> patch]

\* Lines 114-129 for one listed instance of the dataset: whether it is added
\* to remove_ids.
long_edit_flagsMutGeq(art) ==
    IF art.kind = "missing"
      THEN TRUE
      ELSE IF art.kind = "unparsable"
             THEN TRUE
             ELSE /\ art.patch # <<>>
                  /\ LET diff_stats == analyze_diff(art.patch)
                     IN diff_stats.added_lines + diff_stats.deleted_lines
                            >= PATCH_EDIT_MAX
long_edit_flags(art) ==
    IF art.kind = "missing"
      THEN TRUE
      ELSE IF art.kind = "unparsable"
             THEN TRUE
             ELSE /\ art.patch # <<>>
                  /\ LET diff_stats == analyze_diff(art.patch)
                     IN diff_stats.added_lines + diff_stats.deleted_lines
                            > PATCH_EDIT_MAX

dataset_ids == {loaded_dataset[i].instance_id : i \in 1..Len(loaded_dataset)}

\* os.path.splitext(args.dataset[0]) and the output name of line 155.
dataset_fp == <<"data", ".jsonl">>

new_fp(mode) == <<dataset_fp[1], "_filter_", mode, dataset_fp[2]>>

Procs == {"p1", "p2"}

\* The invocation whose arguments and locals filterVars hold.
F == "p1"

NoErr == <<"", 0>>

Absent == [exists |-> FALSE, opens |-> 0, data |-> <<>>]

Raise(p, type, line) ==
    /\ opc' = [opc EXCEPT ![p] = "raised"]
    /\ err' = [err EXCEPT ![p] = <<type, line>>]

Finished(p) == opc[p] \in {"idle", "done", "raised"}

\* filter.py main(), lines 88-107, 130 and 147-151: the arguments are read,
\* the dataset is loaded and the mode is dispatched.
filter_main ==
    /\ Finished(F)
    /\ invocations < MaxInvocations
    /\ invocations' = invocations + 1
    /\ tool' = [tool EXCEPT ![F] = "filter"]
    /\ atOutput' = [atOutput EXCEPT ![F] = "not reached"]
    /\ wrote' = [wrote EXCEPT ![F] = FALSE]
    /\ remove_ids' = {}
    /\ cursor' = 1
    /\ IF filter_mode = "long_edit"
         THEN IF folder = <<>>
                THEN Raise(F, "ValueError", 104)
                ELSE /\ opc' = [opc EXCEPT ![F] = "long_edit"]
                     /\ err' = [err EXCEPT ![F] = NoErr]
         ELSE IF filter_mode = "user_length"
                THEN /\ opc' = [opc EXCEPT ![F] = IF loaded_dataset = <<>>
                                                    THEN "summary"
                                                    ELSE "user_length"]
                     /\ err' = [err EXCEPT ![F] = NoErr]
                ELSE Raise(F, "RuntimeError", 148)
    /\ UNCHANGED <<dest, payload, fs, filter_mode, folder, loaded_dataset>>

\* Lines 108-129: one trajectory folder, every listed instance of it.
long_edit_folder ==
    /\ opc[F] = "long_edit"
    /\ LET subdirs == folder[cursor]
       IN remove_ids' = remove_ids
                        \cup {inst_id \in DOMAIN subdirs :
                                /\ inst_id \in dataset_ids
                                /\ long_edit_flags(subdirs[inst_id])}
    /\ cursor' = cursor + 1
    /\ opc' = [opc EXCEPT ![F] = IF cursor = Len(folder) THEN "summary" ELSE "long_edit"]
    /\ UNCHANGED <<tool, dest, payload, err, atOutput, wrote, fs, invocations,
                   filter_mode, folder, loaded_dataset>>

\* Lines 137-146: one trajectory of the dataset.  cur_lengths / denominator
\* is a true division, so it exceeds the maximum iff cur_lengths exceeds the
\* maximum times the denominator.
user_length_trajectory ==
    /\ opc[F] = "user_length"
    /\ LET data == loaded_dataset[cursor]
           cur == user_lengths_from(data.messages, 1, 0)
           denominator == Len(data.messages) \div 2
       IN IF cur.raised
            THEN /\ Raise(F, "TypeError", 143)
                 /\ UNCHANGED <<remove_ids, cursor>>
            ELSE IF denominator = 0
                   THEN /\ Raise(F, "ZeroDivisionError", 145)
                        /\ UNCHANGED <<remove_ids, cursor>>
                   ELSE /\ remove_ids' =
                              IF cur.value > TOOL_CALL_TOKEN_MAX * denominator
                                THEN remove_ids \cup {data.instance_id}
                                ELSE remove_ids
                        /\ cursor' = cursor + 1
                        /\ opc' = [opc EXCEPT ![F] = IF cursor = Len(loaded_dataset)
                                                       THEN "summary"
                                                       ELSE "user_length"]
                        /\ err' = err
    /\ UNCHANGED <<tool, dest, payload, atOutput, wrote, fs, invocations,
                   filter_mode, folder, loaded_dataset>>

\* The instances lines 160-163 write: those not in remove_ids, in order.
RECURSIVE kept_from(_, _)
kept_from(i, acc) ==
    IF i > Len(loaded_dataset)
      THEN acc
      ELSE kept_from(i + 1, IF loaded_dataset[i].instance_id \in remove_ids
                              THEN acc
                              ELSE Append(acc, loaded_dataset[i].instance_id))

\* Lines 153-156: the removal percentage is logged (a division by the size
\* of the dataset) and the output name is formed.
filter_summary ==
    /\ opc[F] = "summary"
    /\ IF Len(loaded_dataset) = 0
         THEN /\ Raise(F, "ZeroDivisionError", 153)
              /\ UNCHANGED <<dest, payload>>
         ELSE /\ opc' = [opc EXCEPT ![F] = "check"]
              /\ dest' = [dest EXCEPT ![F] = new_fp(filter_mode)]
              /\ payload' = [payload EXCEPT ![F] = kept_from(1, <<>>)]
              /\ err' = err
    /\ UNCHANGED <<tool, atOutput, wrote, fs, invocations, filterVars, scaleVars, diffVars>>

\* ------------------------------------------- the output step of both tools

\* The paths the tools are pointed at.  scale.py's -o names either of them.
Dests == {new_fp("long_edit"), new_fp("user_length")}

Payloads == {<<>>, <<"a_1">>, <<"a_1", "unrelated_1">>}

\* An invocation of a tool up to its output step (filter.py lines 88-156,
\* scale.py lines 103-139), whatever its arguments made of the data.
tool_main(p, t, d, data) ==
    /\ Finished(p)
    /\ invocations < MaxInvocations
    /\ invocations' = invocations + 1
    /\ tool' = [tool EXCEPT ![p] = t]
    /\ dest' = [dest EXCEPT ![p] = d]
    /\ payload' = [payload EXCEPT ![p] = data]
    /\ opc' = [opc EXCEPT ![p] = "check"]
    /\ err' = [err EXCEPT ![p] = NoErr]
    /\ atOutput' = [atOutput EXCEPT ![p] = "not reached"]
    /\ wrote' = [wrote EXCEPT ![p] = FALSE]
    /\ UNCHANGED <<fs, filterVars, scaleVars, diffVars>>

\* The same when the caller starts no invocation before the last has ended.
tool_main_alone(p, t, d, data) ==
    /\ \A q \in Procs : Finished(q)
    /\ tool_main(p, t, d, data)

\* os.path.exists(fp)
path_existsMutNever(p) == FALSE
path_exists(p) == fs[dest[p]].exists

Seen(p) == IF fs[dest[p]].exists THEN "present" ELSE "absent"

\* filter.py lines 157-158.
filter_check(p) ==
    /\ opc[p] = "check"
    /\ tool[p] = "filter"
    /\ atOutput' = [atOutput EXCEPT ![p] = Seen(p)]
    /\ IF path_exists(p)
         THEN Raise(p, "FileExistsError", 158)
         ELSE /\ opc' = [opc EXCEPT ![p] = "open"]
              /\ err' = err
    /\ UNCHANGED <<tool, dest, payload, wrote, fs, invocations, filterVars, scaleVars, diffVars>>

\* scale.py lines 140-143: an empty selection is neither checked nor written.
scale_check(p) ==
    /\ opc[p] = "check"
    /\ tool[p] = "scale"
    /\ atOutput' = [atOutput EXCEPT ![p] = Seen(p)]
    /\ IF payload[p] = <<>>
         THEN /\ opc' = [opc EXCEPT ![p] = "done"]
              /\ err' = err
         ELSE IF path_exists(p)
                THEN Raise(p, "FileExistsError", 143)
                ELSE /\ opc' = [opc EXCEPT ![p] = "open"]
                     /\ err' = err
    /\ UNCHANGED <<tool, dest, payload, wrote, fs, invocations, filterVars, scaleVars, diffVars>>

\* The mode both tools open their output with.
open_modeMutExclusive == "x"
open_mode == "w"

\* open(fp, mode) of filter.py line 159 and scale.py line 144: "w" creates
\* the file or truncates it; "x" would raise when the file exists.
open_output(p) ==
    /\ opc[p] = "open"
    /\ IF open_mode = "x" /\ fs[dest[p]].exists
         THEN /\ Raise(p, "FileExistsError", IF tool[p] = "filter" THEN 159 ELSE 144)
              /\ UNCHANGED <<fs, wrote>>
         ELSE /\ fs' = [fs EXCEPT ![dest[p]] =
                           [exists |-> TRUE, opens |-> @.opens + 1, data |-> <<>>]]
              /\ wrote' = [wrote EXCEPT ![p] = TRUE]
              /\ opc' = [opc EXCEPT ![p] = "write"]
              /\ err' = err
    /\ UNCHANGED <<tool, dest, payload, atOutput, invocations, filterVars, scaleVars, diffVars>>

\* What a file holds after `lines` are written from its start over `old`.
Overlay(old, lines) == lines \o SubSeq(old, Len(lines) + 1, Len(old))

\* filter.py lines 160-163 and scale.py lines 145-146: the lines are written
\* and the file is closed.
write_output(p) ==
    /\ opc[p] = "write"
    /\ fs' = [fs EXCEPT ![dest[p]].data = Overlay(@, payload[p])]
    /\ opc' = [opc EXCEPT ![p] = "done"]
    /\ UNCHANGED <<tool, dest, payload, err, atOutput, wrote, invocations, filterVars, scaleVars, diffVars>>

\* ---------------------------------------------------------------- scale.py

\* A float argument, held exactly as num/den with den > 0.
Frac(num, den) == [num |-> num, den |-> den]

\* int(x) of a float: truncation toward zero.
int(x) ==
    IF x.num >= 0 THEN x.num \div x.den ELSE -((-x.num) \div x.den)

\* Lines 112-115: args.number after the clamp and the proportion branch.
clamp(n, size) ==
    IF n.num > size * n.den
      THEN Frac(size, 1)
      ELSE IF n.num > 0 /\ n.num < n.den
             THEN Frac(n.num * size, n.den)
             ELSE n

\* str.split(sep): the pieces between the occurrences of sep.
RECURSIVE split(_, _)
split(s, sep) ==
    IF \A i \in DOMAIN s : s[i] # sep
      THEN <<s>>
      ELSE LET i == CHOOSE i \in DOMAIN s :
                        s[i] = sep /\ \A j \in 1..(i - 1) : s[j] # sep
           IN <<SubSeq(s, 1, i - 1)>> \o split(SubSeq(s, i + 1, Len(s)), sep)

\* sep.join(parts)
RECURSIVE join(_, _)
join(parts, sep) ==
    IF parts = <<>>
      THEN <<>>
      ELSE IF Len(parts) = 1
             THEN parts[1]
             ELSE parts[1] \o <<sep>> \o join(Tail(parts), sep)

\* Line 57: "_".join(instance_id.split("_"))[:-1]
repo_nameMutWholeId(instance_id) == join(split(instance_id, "_"), "_")
repo_name(instance_id) ==
    LET joined == join(split(instance_id, "_"), "_")
    IN SubSeq(joined, 1, Len(joined) - 1)

\* Lines 55-60: repo_to_data[name], the trajectories of a repository in
\* the order of the dataset.
repo_to_data(dataset, name) ==
    SelectSeq(dataset, LAMBDA data : repo_name(data.instance_id) = name)

repo_names(dataset) ==
    {repo_name(dataset[i].instance_id) : i \in DOMAIN dataset}

\* random.shuffle(list): the orders it can leave the list in.
shuffle(list) ==
    {[i \in DOMAIN list |-> list[f[i]]] : f \in Permutations(DOMAIN list)}

\* list(keys) shuffled: the orders in which a set can be visited.
orders(S) ==
    {o \in [1..Cardinality(S) -> S] : \A x \in S : \E i \in DOMAIN o : o[i] = x}

\* random.sample(population, k) for 0 <= k <= len(population).
sample(population, k) ==
    {[i \in 1..k |-> population[f[i]]] :
        f \in {g \in [1..k -> DOMAIN population] :
                 \A i, j \in 1..k : g[i] = g[j] => i = j}}

\* list[:k]
slice_to(list, k) ==
    IF k >= 0
      THEN SubSeq(list, 1, IF k < Len(list) THEN k ELSE Len(list))
      ELSE SubSeq(list, 1, Len(list) + k)

\* list[i] raises IndexError outside -len .. len-1.
index_ok(list, i) == -Len(list) <= i /\ i < Len(list)

ids(dataset) == [i \in DOMAIN dataset |-> dataset[i].instance_id]

\* Lines 134-139 with -o given: the output path beside the first dataset.
scale_fp == new_fp("long_edit")

\* scale.py main(), lines 103-120: the arguments are read, the corpus is
\* loaded, the target count is formed and the corpus is shuffled.
scale_main ==
    /\ Finished(F)
    /\ invocations < MaxInvocations
    /\ invocations' = invocations + 1
    /\ tool' = [tool EXCEPT ![F] = "scale"]
    /\ atOutput' = [atOutput EXCEPT ![F] = "not reached"]
    /\ wrote' = [wrote EXCEPT ![F] = FALSE]
    /\ opc' = [opc EXCEPT ![F] = "strategy"]
    /\ err' = [err EXCEPT ![F] = NoErr]
    /\ number' = int(clamp(args_number, Len(total_ds)))
    /\ total_ds' \in shuffle(total_ds)
    /\ new_dataset' = <<>>
    /\ repo_order' = <<>>
    /\ UNCHANGED <<dest, payload, fs, scale_type, args_number, args_threshold,
                   filterVars, diffVars>>

\* Lines 134-139: the selection is returned to main() and the path is formed.
scale_selected(scaled_ds) ==
    /\ new_dataset' = scaled_ds
    /\ dest' = [dest EXCEPT ![F] = scale_fp]
    /\ payload' = [payload EXCEPT ![F] = ids(scaled_ds)]
    /\ opc' = [opc EXCEPT ![F] = "check"]
    /\ err' = err

\* scale_tokens, lines 81-101, on the records of the collaborator: the
\* selections it can return.
scale_tokens(dataset, target, min_ratio) ==
    LET capped == IF target < Len(dataset) THEN target ELSE Len(dataset)
        sorted == {s \in shuffle(dataset) :
                     \A i \in 1..(Len(s) - 1) : s[i].ratio >= s[i + 1].ratio}
    IN {slice_to(IF min_ratio = 0
                   THEN s
                   ELSE SelectSeq(s, LAMBDA data : data.ratio >= min_ratio),
                 capped) : s \in sorted}

\* Line 91: the two ends of the ratio range are indexed.
scale_tokens_raises(dataset, target) ==
    LET capped == IF target < Len(dataset) THEN target ELSE Len(dataset)
    IN ~index_ok(dataset, 0) \/ ~index_ok(dataset, capped - 1)

\* Lines 121-133: the strategy is dispatched.
scale_strategy ==
    /\ opc[F] = "strategy"
    /\ IF scale_type = "repo"
         THEN /\ repo_order' \in orders(repo_names(total_ds))
              /\ opc' = [opc EXCEPT ![F] = "repos"]
              /\ UNCHANGED <<number, new_dataset, dest, payload, err>>
         ELSE IF scale_type = "tokens"
                THEN IF scale_tokens_raises(total_ds, number)
                       THEN /\ Raise(F, "IndexError", 91)
                            /\ UNCHANGED <<number, new_dataset, repo_order,
                                           dest, payload>>
                       ELSE \E scaled_ds \in scale_tokens(total_ds, number,
                                                          args_threshold) :
                               /\ scale_selected(scaled_ds)
                               /\ number' = Len(scaled_ds)
                               /\ UNCHANGED repo_order
                ELSE IF scale_type = "random"
                       THEN IF number < 0 \/ number > Len(total_ds)
                              THEN /\ Raise(F, "ValueError", 128)
                                   /\ UNCHANGED <<number, new_dataset,
                                                  repo_order, dest, payload>>
                              ELSE \E scaled_ds \in sample(total_ds, number) :
                                      /\ scale_selected(scaled_ds)
                                      /\ UNCHANGED <<number, repo_order>>
                       ELSE /\ Raise(F, "RuntimeError", 130)
                            /\ UNCHANGED <<number, new_dataset, repo_order,
                                           dest, payload>>
    /\ UNCHANGED <<tool, atOutput, wrote, fs, invocations, scale_type,
                   args_number, args_threshold, total_ds, filterVars, diffVars>>

\* scale_repos, lines 65-71 and 123: one repository of the shuffled order
\* is visited, or the loop is left and the selection returned.
scale_repos ==
    /\ opc[F] = "repos"
    /\ IF repo_order # <<>> /\ Len(new_dataset) < number
         THEN /\ new_dataset' =
                   new_dataset \o repo_to_data(total_ds, Head(repo_order))
              /\ repo_order' = Tail(repo_order)
              /\ UNCHANGED <<number, dest, payload, opc, err>>
         ELSE /\ scale_selected(new_dataset)
              /\ number' = Len(new_dataset)
              /\ UNCHANGED repo_order
    /\ UNCHANGED <<tool, atOutput, wrote, fs, invocations, scale_type,
                   args_number, args_threshold, total_ds, filterVars, diffVars>>

\* ------------------------------------------------------------------ inputs

\* The text of n lines, each `line` followed by a newline.
Lines(n, line) ==
    LET l == Append(line, "\n")
    IN [i \in 1..n * Len(l) |-> l[((i - 1) % Len(l)) + 1]]

\* A unified diff of one file with k added and m deleted lines.
PatchOf(k, m) ==
    <<"diff --git", " a/f b/f", "\n", "-", "-", "-", " a/f", "\n",
      "+", "+", "+", " b/f", "\n", "@", "@", " -1 +1 ", "@", "@", "\n">>
    \o Lines(k, <<"+", "x">>) \o Lines(m, <<"-", "x">>)

Artifacts ==
    {Missing, Unparsable, Pred(<<>>),
     Pred(PatchOf(PATCH_EDIT_MAX - 1, 1)),
     Pred(PatchOf(PATCH_EDIT_MAX - 1, 2))}

\* The listings of a trajectory folder: "a_1" with any artifact, and "zz_9",
\* which no dataset holds.
Folders ==
    {f \in UNION {[S -> Artifacts] : S \in SUBSET {"a_1", "zz_9"}} :
        "zz_9" \in DOMAIN f => f["zz_9"] = Missing}

FolderArgs == UNION {[1..n -> Folders] : n \in 0..MaxFolders}

Content(n, sentinel) == [tokens |-> n, has_target_prefix |-> sentinel]

Msg(role, n, sentinel) == [role |-> role, content |-> Content(n, sentinel)]

Assistant == Msg("assistant", 50, FALSE)

Messages ==
    {Assistant, Msg("user", 100, FALSE), Msg("user", 2101, FALSE),
     Msg("user", 30, TRUE)}

\* The nine-message trajectory whose four user messages have the given counts.
NineMessages(a, b, c, d) ==
    <<Msg("system", 20, FALSE), Msg("user", a, FALSE), Assistant,
      Msg("user", b, FALSE), Assistant, Msg("user", c, FALSE), Assistant,
      Msg("user", d, FALSE), Assistant>>

MessageLists ==
    UNION {[1..n -> Messages] : n \in 0..MaxMessages}
    \cup {NineMessages(100, 100, 100, 100), NineMessages(100, 100, 100, 2101),
          <<Assistant, Msg("user", 30, TRUE), Msg("user", 2101, FALSE), Assistant>>}

Traj(id, messages) == [instance_id |-> id, messages |-> messages]

LongEditDatasets ==
    {<<>>, <<Traj("a_1", <<>>)>>, <<Traj("a_1", <<>>), Traj("unrelated_1", <<>>)>>}

\* The trajectories that follow the first one in a dataset of two.
Followers ==
    {<<>>, <<Assistant, Msg("user", 30, TRUE)>>, NineMessages(100, 100, 100, 100)}

UserLengthDatasets ==
    {<<>>} \cup {<<Traj("t_1", m)>> : m \in MessageLists}
    \cup {<<Traj("t_1", m), Traj("t_2", n)>> : m \in MessageLists, n \in Followers}

\* Trajectories of the corpus, each with the ratio the truncation
\* collaborator reports for it (in percent).
ScalePool ==
    << [instance_id |-> <<"r", "_", "a", "_", "1">>, ratio |-> 100],
       [instance_id |-> <<"r", "_", "a", "_", "2">>, ratio |-> 80],
       [instance_id |-> <<"r", "_", "b", "_", "1">>, ratio |-> 100] >>

\* The corpora of at most MaxCorpus trajectories, as the files list them.
Corpora ==
    UNION {{[i \in 1..n |-> ScalePool[f[i]]] :
              f \in {g \in [1..n -> DOMAIN ScalePool] :
                       \A i \in 1..(n - 1) : g[i] <= g[i + 1]}} :
           n \in 0..MaxCorpus}

\* Values of -n: negative, zero, proportions, counts, more than the corpus.
Numbers ==
    {Frac(-2, 1), Frac(-1, 2), Frac(0, 1), Frac(1, 2), Frac(3, 4), Frac(1, 1),
     Frac(2, 1), Frac(5, 2), Frac(9, 1)}

ScaleTypes == {"repo", "tokens", "random", "repos"}

\* A line of a hunk: its sign ("+" added, "-" removed, " " context) and
\* its content.
HunkLine(sign, content) == [sign |-> sign, content |-> content]

HunkLines ==
    {HunkLine("+", <<"x = 1">>), HunkLine("-", <<"x = 0">>),
     HunkLine(" ", <<"y">>),
     HunkLine("+", <<"+", "+", "i;">>), HunkLine("-", <<"-", "-", " ">>),
     HunkLine("+", <<"a", "\f", "+", "b">>)}

\* The diff of one file: whether git marks it as new, and its hunk.
FileDiffs ==
    [new : BOOLEAN,
     hunk : UNION {[1..n -> HunkLines] : n \in 0..MaxHunkLines}]

\* The diffs of at most two files, the first of two with a hunk of one line.
Diffs == {<<>>} \cup {<<f>> : f \in FileDiffs}
                \cup {<<f, g>> : f \in {h \in FileDiffs : Len(h.hunk) = 1},
                                 g \in FileDiffs}

RECURSIVE render_hunk(_)
render_hunk(hunk) ==
    IF hunk = <<>>
      THEN <<>>
      ELSE <<hunk[1].sign>> \o hunk[1].content \o <<"\n">>
             \o render_hunk(Tail(hunk))

\* The text git prints for the diff of one file.
render_file(f) ==
    <<"diff --git", " a/f b/f", "\n">>
      \o (IF f.new THEN <<"new file mode", " 100644", "\n">> ELSE <<>>)
      \o <<"-", "-", "-", " a/f", "\n", "+", "+", "+", " b/f", "\n">>
      \o <<"@", "@", " -1 +1 ", "@", "@", "\n">>
      \o render_hunk(f.hunk)

RECURSIVE render(_)
render(files) ==
    IF files = <<>> THEN <<>> ELSE render_file(files[1]) \o render(Tail(files))

\* ---------------------------------------------------------- specifications

ToolsIdle ==
    /\ opc = [p \in Procs |-> "idle"]
    /\ tool = [p \in Procs |-> "filter"]
    /\ dest = [p \in Procs |-> new_fp("long_edit")]
    /\ payload = [p \in Procs |-> <<>>]
    /\ err = [p \in Procs |-> NoErr]
    /\ atOutput = [p \in Procs |-> "not reached"]
    /\ wrote = [p \in Procs |-> FALSE]
    /\ fs = [d \in Dests |-> Absent]
    /\ invocations = 0

NoFilterArgs ==
    /\ filter_mode = "long_edit"
    /\ folder = <<>>
    /\ loaded_dataset = <<>>
    /\ cursor = 1
    /\ remove_ids = {}

NoScaleArgs ==
    /\ scale_type = "repo"
    /\ args_number = [num |-> 0, den |-> 1]
    /\ args_threshold = 0
    /\ total_ds = <<>>
    /\ number = 0
    /\ new_dataset = <<>>
    /\ repo_order = <<>>

NoDiff ==
    /\ diff_files = <<>>
    /\ diff_text = <<>>
    /\ stats = Unset

\* The pipeline controller: runs of main.py on one experiment folder.
Init == PipeInit /\ ToolsIdle /\ NoFilterArgs /\ NoScaleArgs /\ NoDiff

Next ==
    \/ \E s \in StageNames, t \in Thresholds :
          Run(s, t) /\ UNCHANGED <<toolVars, filterVars, scaleVars, diffVars>>
    \/ run_generate /\ UNCHANGED <<toolVars, filterVars, scaleVars, diffVars>>
    \/ run_distill_one /\ UNCHANGED <<toolVars, filterVars, scaleVars, diffVars>>
    \/ run_distill_two /\ UNCHANGED <<toolVars, filterVars, scaleVars, diffVars>>
    \/ run_eval /\ UNCHANGED <<toolVars, filterVars, scaleVars, diffVars>>
    \/ run_postprocess /\ UNCHANGED <<toolVars, filterVars, scaleVars, diffVars>>

Spec == Init /\ [][Next]_vars

\* The filter tool: invocations of filter.py with the same arguments.
InitFilter ==
    /\ PipeInit
    /\ ToolsIdle
    /\ NoScaleArgs
    /\ NoDiff
    /\ cursor = 1
    /\ remove_ids = {}
    /\ \/ /\ filter_mode = "long_edit"
          /\ folder \in FolderArgs
          /\ loaded_dataset \in LongEditDatasets
       \/ /\ filter_mode = "user_length"
          /\ folder = <<>>
          /\ loaded_dataset \in UserLengthDatasets
       \/ /\ filter_mode = "short_edit"
          /\ folder = <<>>
          /\ loaded_dataset \in LongEditDatasets

NextFilter ==
    \/ filter_main /\ UNCHANGED <<pipeVars, scaleVars, diffVars>>
    \/ long_edit_folder /\ UNCHANGED <<pipeVars, scaleVars, diffVars>>
    \/ user_length_trajectory /\ UNCHANGED <<pipeVars, scaleVars, diffVars>>
    \/ filter_summary /\ UNCHANGED <<pipeVars, scaleVars, diffVars>>
    \/ filter_check(F) /\ UNCHANGED <<pipeVars, scaleVars, diffVars>>
    \/ open_output(F) /\ UNCHANGED <<pipeVars, scaleVars, diffVars>>
    \/ write_output(F) /\ UNCHANGED <<pipeVars, scaleVars, diffVars>>

SpecFilter == InitFilter /\ [][NextFilter]_vars

\* The output step of the tools, one invocation at a time.
NextOutput ==
    \/ \E p \in Procs, t \in {"filter", "scale"}, d \in Dests, data \in Payloads :
          tool_main_alone(p, t, d, data) /\ UNCHANGED <<pipeVars, scaleVars, diffVars>>
    \/ \E p \in Procs : filter_check(p) /\ UNCHANGED <<pipeVars, scaleVars, diffVars>>
    \/ \E p \in Procs : scale_check(p) /\ UNCHANGED <<pipeVars, scaleVars, diffVars>>
    \/ \E p \in Procs : open_output(p) /\ UNCHANGED <<pipeVars, scaleVars, diffVars>>
    \/ \E p \in Procs : write_output(p) /\ UNCHANGED <<pipeVars, scaleVars, diffVars>>

SpecOutput == Init /\ [][NextOutput]_vars

\* The output step of the tools, invocations overlapping freely.
NextRace ==
    \/ \E p \in Procs, t \in {"filter", "scale"}, d \in Dests, data \in Payloads :
          tool_main(p, t, d, data) /\ UNCHANGED <<pipeVars, scaleVars, diffVars>>
    \/ \E p \in Procs : filter_check(p) /\ UNCHANGED <<pipeVars, scaleVars, diffVars>>
    \/ \E p \in Procs : scale_check(p) /\ UNCHANGED <<pipeVars, scaleVars, diffVars>>
    \/ \E p \in Procs : open_output(p) /\ UNCHANGED <<pipeVars, scaleVars, diffVars>>
    \/ \E p \in Procs : write_output(p) /\ UNCHANGED <<pipeVars, scaleVars, diffVars>>

SpecRace == Init /\ [][NextRace]_vars

\* The scale tool: invocations of scale.py with the same arguments.
InitScale ==
    /\ PipeInit
    /\ ToolsIdle
    /\ NoFilterArgs
    /\ NoDiff
    /\ scale_type \in ScaleTypes
    /\ args_number \in Numbers
    /\ args_threshold \in (IF scale_type = "tokens" THEN {0, 90} ELSE {0})
    /\ total_ds \in Corpora
    /\ number = 0
    /\ new_dataset = <<>>
    /\ repo_order = <<>>

NextScale ==
    \/ scale_main /\ UNCHANGED pipeVars
    \/ scale_strategy /\ UNCHANGED pipeVars
    \/ scale_repos /\ UNCHANGED pipeVars
    \/ scale_check(F) /\ UNCHANGED pipeVars
    \/ open_output(F) /\ UNCHANGED pipeVars
    \/ write_output(F) /\ UNCHANGED pipeVars

SpecScale == InitScale /\ [][NextScale]_vars

\* One call of analyze_diff on the text of a diff.
InitDiff ==
    /\ PipeInit
    /\ ToolsIdle
    /\ NoFilterArgs
    /\ NoScaleArgs
    /\ diff_files \in Diffs
    /\ diff_text = render(diff_files)
    /\ stats = Unset

call_analyze_diff ==
    /\ stats = Unset
    /\ stats' = analyze_diff(diff_text)
    /\ UNCHANGED <<diff_files, diff_text>>

NextDiff ==
    \/ call_analyze_diff /\ UNCHANGED <<pipeVars, toolVars, filterVars, scaleVars>>

SpecDiff == InitDiff /\ [][NextDiff]_vars

\* ------------------------------------------------- claims on sera/main.py

StageOrder ==
    <<"generate", "distill_stage_one", "distill_stage_two", "eval", "postprocess">>

ExpectedCalls(S) ==
    [i \in 1..Len(StageOrder) |-> [stage |-> StageOrder[i], skip |-> (i - 1 < S)]]

StageTwoInstancesFp == Div(data_dir, "stage_two_instances.yaml")

\* C1: for every valid stage name with resolved index S (pipeline = -1), one
\* call of Experiment.run invokes the five concrete stages exactly once each,
\* in the order generate, distill_stage_one, distill_stage_two, eval,
\* postprocess, and stage i is invoked in skip mode iff i < S.
C1_StagesOnceInOrder ==
    stage \in DOMAIN stage_map =>
        /\ stage_idx = stage_map[stage]
        /\ Len(calls) <= Len(StageOrder)
        /\ calls = SubSeq(ExpectedCalls(stage_idx), 1, Len(calls))
        /\ (pc = "done" => calls = ExpectedCalls(stage_idx))

C1_Witness ==
    /\ pc = "done"
    /\ stage = "distill_stage_two"
    /\ Len(calls) = Len(StageOrder)
    /\ calls[2].skip
    /\ ~calls[3].skip

\* C2 (as claimed): requesting stage eval runs generate, distill_stage_one and
\* distill_stage_two in skip mode and eval in full mode, and postprocess is
\* not invoked at all during that run.
C2_PostprocessNotInvoked ==
    (pc = "done" /\ stage = "eval") =>
        /\ \A k \in 1..Len(calls) :
              /\ calls[k].stage \in {"generate", "distill_stage_one",
                                     "distill_stage_two"} => calls[k].skip
              /\ calls[k].stage = "eval" => ~calls[k].skip
        /\ \A k \in 1..Len(calls) : calls[k].stage # "postprocess"

\* C2 (amended): requesting stage eval runs generate, distill_stage_one and
\* distill_stage_two in skip mode and eval in full mode, and postprocess is
\* then invoked once, in full mode: the formatter runs on both stages' output.
C2_EvalResumeRunsPostprocess ==
    (pc = "done" /\ stage = "eval") =>
        /\ calls = << [stage |-> "generate", skip |-> TRUE],
                      [stage |-> "distill_stage_one", skip |-> TRUE],
                      [stage |-> "distill_stage_two", skip |-> TRUE],
                      [stage |-> "eval", skip |-> FALSE],
                      [stage |-> "postprocess", skip |-> FALSE] >>
        /\ exec = << <<"distill_method", "stage_one", "True">>,
                     <<"distill_method", "stage_two", "True">>,
                     <<"eval_loop">>,
                     <<"dump_json">>,
                     <<"format_and_save", "stage_one", "no report">>,
                     <<"format_and_save", "stage_two", "report">> >>

C2_Witness ==
    /\ pc = "done"
    /\ stage = "eval"
    /\ calls[Len(calls)] = [stage |-> "postprocess", skip |-> FALSE]

\* C3: Experiment.run called with a name that is neither one of the five
\* concrete stages nor 'pipeline' raises before any stage executes: no stage
\* method and no executor is invoked, no artifact attribute is set and no
\* file is written.
C3_InvalidStageRaisesFirst ==
    stage \notin DOMAIN stage_map =>
        /\ pc = "raised"
        /\ calls = <<>>
        /\ exec = <<>>
        /\ writes = <<>>
        /\ self = NoAttrs

C3_Witness ==
    /\ pc = "raised"
    /\ stage = "train"
    /\ runs = 2
    /\ disk # {}

\* C4: across any sequence of runs on the same experiment folder, the PR
\* scraper is invoked only when stage_two_instances.yaml does not exist, the
\* file is derived and saved at most once, and once it exists no later run
\* derives or rewrites it, whether distill_stage_two is skipped or not.
C4_ScrapeOnlyWhenAbsent ==
    /\ [](/\ scrapes <= 1
          /\ yamlWrites <= 1
          /\ (yamlWrites = 1 <=> StageTwoInstancesFp \in disk))
    /\ [][/\ scrapes' # scrapes =>
                /\ StageTwoInstancesFp \notin disk
                /\ StageTwoInstancesFp \in disk'
                /\ yamlWrites' = yamlWrites + 1
          /\ StageTwoInstancesFp \in disk =>
                /\ StageTwoInstancesFp \in disk'
                /\ scrapes' = scrapes
                /\ yamlWrites' = yamlWrites
                /\ \A k \in Len(writes) + 1..Len(writes') :
                      writes'[k] # StageTwoInstancesFp]_vars

\* A second full run of distill_stage_two that found the file and reused it.
C4_Witness ==
    /\ pc = "done"
    /\ runs >= 2
    /\ stage_idx <= 2
    /\ yamlWrites = 1
    /\ <<"scrape_synthetic_prs">> \notin Range(exec)
    /\ <<"distill_method", "stage_two", "False">> \in Range(exec)

\* C5: a stage invoked in skip mode does not recompute or write its output
\* (generate_method not called; distill_method called with metadata_only only;
\* scraper not called; eval_loop not called and no report written), and still
\* leaves the controller with the artifact references of a full-mode run.
C5_SkipModeFrame ==
    \A k \in 1..Len(calls) :
        calls[k].skip =>
            /\ calls[k].stage = "generate" =>
                  /\ <<"generate_method">> \notin Range(exec)
                  /\ GenerateOut \notin Range(writes)
            /\ calls[k].stage = "distill_stage_one" =>
                  /\ <<"distill_method", "stage_one", "False">> \notin Range(exec)
                  /\ <<"distill_method", "stage_one", "True">> \in Range(exec)
                  /\ DistillMethod("stage_one", FALSE).output_dir \notin Range(writes)
                  /\ self.stage_one_output_dir
                        = DistillMethod("stage_one", FALSE).output_dir
                  /\ self.stage_one_instances_fp
                        = DistillMethod("stage_one", FALSE).instances_fp
            /\ calls[k].stage = "distill_stage_two" =>
                  /\ <<"distill_method", "stage_two", "False">> \notin Range(exec)
                  /\ <<"distill_method", "stage_two", "True">> \in Range(exec)
                  /\ <<"scrape_synthetic_prs">> \notin Range(exec)
                  /\ <<"save_yaml">> \notin Range(exec)
                  /\ StageTwoInstancesFp \notin Range(writes)
                  /\ DistillMethod("stage_two", FALSE).output_dir \notin Range(writes)
                  /\ self.stage_two_output_dir
                        = DistillMethod("stage_two", FALSE).output_dir
                  /\ self.stage_two_instances_fp
                        = DistillMethod("stage_two", FALSE).instances_fp
            /\ calls[k].stage = "eval" =>
                  /\ <<"eval_loop">> \notin Range(exec)
                  /\ <<"dump_json">> \notin Range(exec)
                  /\ self.report_fp
                        = <<"expt", "traj", "stage_two", "report_t", threshold, ".json">>
                  /\ self.report_fp \notin Range(writes)

C5_Witness ==
    /\ pc = "done"
    /\ stage = "postprocess"
    /\ \A k \in 1..4 : calls[k].skip
    /\ self.report_fp # Unset

\* ------------------------------------------- claims on filter.py, scale.py

\* C6 (as claimed): no curation tool ever overwrites an existing output
\* file: whenever the destination exists at output time the tool raises
\* FileExistsError and the file is left as it was.
C6_CollisionAlwaysRaises ==
    /\ \A d \in Dests : fs[d].opens <= 1
    /\ \A p \in Procs :
          atOutput[p] = "present" =>
              /\ opc[p] = "raised"
              /\ err[p][1] = "FileExistsError"
              /\ ~wrote[p]

\* C6 (amended): with one invocation at a time, no curation tool overwrites
\* an existing output file: when the destination exists at output time, the
\* filter tool raises FileExistsError, and the scale tool raises it unless its
\* selection is empty, in which case it ends without checking or writing;
\* either way the invocation does not open the file.
C6_NoOverwrite ==
    /\ \A d \in Dests : fs[d].opens <= 1
    /\ \A p \in Procs :
          atOutput[p] = "present" =>
              /\ ~wrote[p]
              /\ IF tool[p] = "scale" /\ payload[p] = <<>>
                   THEN opc[p] = "done" /\ err[p] = NoErr
                   ELSE opc[p] = "raised" /\ err[p][1] = "FileExistsError"

\* A second invocation against a path the first one produced.
C6_Witness ==
    \E p \in Procs :
        /\ invocations >= 2
        /\ tool[p] = "filter"
        /\ atOutput[p] = "present"
        /\ opc[p] = "raised"
        /\ fs[dest[p]].opens = 1
        /\ fs[dest[p]].data = <<"a_1", "unrelated_1">>

\* C7: the existence check and the write are separate steps with no mutual
\* exclusion: an invocation that found the destination absent is not stopped
\* afterwards, whatever other invocations have done to the destination in
\* between; it raises nothing and goes on to open the file for writing.  So
\* two overlapping invocations can both pass the check and both write.
C7_CheckThenWriteNotAtomic ==
    \A p \in Procs :
        (atOutput[p] = "absent" /\ ~(tool[p] = "scale" /\ payload[p] = <<>>)) =>
            /\ opc[p] \in {"open", "write", "done"}
            /\ err[p] = NoErr
            /\ opc[p] \in {"write", "done"} => wrote[p]

\* Both invocations passed the check, neither raised, both wrote the file.
C7_Witness ==
    /\ dest["p1"] = dest["p2"]
    /\ \A p \in Procs :
          /\ atOutput[p] = "absent"
          /\ opc[p] = "done"
          /\ err[p] = NoErr
          /\ wrote[p]
    /\ fs[dest["p1"]].opens = 2

\* A parsed artifact whose patch has more than 40 added and deleted lines.
OverLong(art) ==
    /\ art.kind = "pred"
    /\ LET d == analyze_diff(art.patch) IN d.added_lines + d.deleted_lines > 40

Unusable(art) == art.kind \in {"missing", "unparsable"}

Listed(inst, j) == inst \in DOMAIN folder[j]

ScanDone == filter_mode = "long_edit" /\ folder # <<>> /\ cursor > Len(folder)

\* C8 (as claimed): in long_edit mode, over any number of folders, a listed
\* instance of the dataset whose artifact is missing or unparsable is always
\* flagged, one whose patch has added + deleted <= 40 is never flagged, one
\* with added + deleted > 40 is always flagged, and an instance that no
\* folder lists is never flagged.
C8_LongEditPerArtifact ==
    ScanDone =>
        \A inst \in dataset_ids :
            /\ (\E j \in 1..Len(folder) : Listed(inst, j) /\ Unusable(folder[j][inst]))
                  => inst \in remove_ids
            /\ (\E j \in 1..Len(folder) :
                    /\ Listed(inst, j)
                    /\ folder[j][inst].kind = "pred"
                    /\ ~OverLong(folder[j][inst]))
                  => inst \notin remove_ids
            /\ (\E j \in 1..Len(folder) : Listed(inst, j) /\ OverLong(folder[j][inst]))
                  => inst \in remove_ids
            /\ (\A j \in 1..Len(folder) : ~Listed(inst, j)) => inst \notin remove_ids

\* C8 (amended): in long_edit mode, over any number of folders, an instance
\* is flagged iff it is in the dataset and some folder taken so far lists it
\* with an artifact that is missing, unparsable, or a patch with
\* added + deleted > 40.  So an instance whose patch has added + deleted <= 40
\* stays unflagged only if no other folder flags it, and an instance that no
\* folder lists, or that is not in the dataset, is never flagged.
C8_LongEditAnyFolder ==
    filter_mode = "long_edit" =>
        \A inst \in dataset_ids \cup remove_ids
                    \cup UNION {DOMAIN folder[j] : j \in 1..Len(folder)} :
            inst \in remove_ids <=>
                /\ inst \in dataset_ids
                /\ \E j \in 1..Len(folder) :
                      /\ j < cursor
                      /\ Listed(inst, j)
                      /\ Unusable(folder[j][inst]) \/ OverLong(folder[j][inst])

\* Two folders list a_1: one with a patch of 39 + 1 lines, one without
\* its .pred file; unrelated_1 is in the dataset and in neither folder.
C8_Witness ==
    /\ ScanDone
    /\ Len(folder) = 2
    /\ Listed("a_1", 1)
    /\ Listed("a_1", 2)
    /\ folder[1]["a_1"].kind = "pred"
    /\ analyze_diff(folder[1]["a_1"].patch)
          = [added_lines |-> 39, deleted_lines |-> 1, new_files |-> 0]
    /\ folder[2]["a_1"] = Missing
    /\ "zz_9" \in DOMAIN folder[1]
    /\ dataset_ids = {"a_1", "unrelated_1"}
    /\ remove_ids = {"a_1"}

\* The sum the user_length mode is described to take: the token counts of
\* the user messages that precede the first user message with the sentinel.
RECURSIVE UserTokens(_, _)
UserTokens(messages, i) ==
    IF i > Len(messages)
      THEN 0
      ELSE IF messages[i].role # "user"
             THEN UserTokens(messages, i + 1)
             ELSE IF messages[i].content.has_target_prefix
                    THEN 0
                    ELSE messages[i].content.tokens + UserTokens(messages, i + 1)

\* C9: in user_length mode every trajectory gets its average: the sum of the
\* token counts of the user messages before the first one with the sentinel,
\* divided by floor(message count / 2); the trajectory is flagged iff the
\* average exceeds 600.  Four user messages of 100 tokens in a trajectory of
\* nine messages give 100: not flagged.
C9_UserLengthAverage ==
    filter_mode = "user_length" =>
        /\ err[F][1] # "TypeError"
        /\ \A k \in 1..Len(loaded_dataset) :
              (k < cursor /\ Len(loaded_dataset[k].messages) >= 2) =>
                  (loaded_dataset[k].instance_id \in remove_ids
                     <=> UserTokens(loaded_dataset[k].messages, 1)
                           > 600 * (Len(loaded_dataset[k].messages) \div 2))

\* C10: in user_length mode a trajectory with 0 or 1 messages (denominator
\* floor(len / 2) = 0) is guarded: taking it raises no arithmetic fault and
\* does not abort the batch.
C10_DegenerateGuarded ==
    (/\ filter_mode = "user_length"
     /\ cursor <= Len(loaded_dataset)
     /\ Len(loaded_dataset[cursor].messages) < 2) =>
        ~(opc[F] = "raised" /\ err[F][1] = "ZeroDivisionError")

\* ----------------------------------------------------- claims on scale.py

\* C11: whatever -n and the corpus are, the integer target count that main()
\* hands to the selected strategy is at least 0 and at most the size of the
\* corpus.
C11_TargetCountClamped ==
    opc[F] = "strategy" => 0 <= number /\ number <= Len(total_ds)

\* The repository group of a key: the trajectories whose instance_id, with
\* its last character dropped, is the key.
DropLast(instance_id) == SubSeq(instance_id, 1, Len(instance_id) - 1)

GroupOf(dataset, key) ==
    SelectSeq(dataset, LAMBDA data : DropLast(data.instance_id) = key)

Least(a, b) == IF a < b THEN a ELSE b

WholeGroups ==
    /\ \A j \in DOMAIN new_dataset : new_dataset[j] \in Range(total_ds)
    /\ \A i \in DOMAIN total_ds :
          LET key == DropLast(total_ds[i].instance_id)
          IN GroupOf(new_dataset, key) \in {<<>>, GroupOf(total_ds, key)}

\* C12: with the repo strategy the selection is a union of whole repository
\* groups (a group is wholly in it or wholly absent), a group is appended
\* only while the selection is smaller than the target n, and the returned
\* selection has at least min(n, |corpus|) trajectories.
C12_WholeReposUntilTarget ==
    /\ [](scale_type = "repo" => WholeGroups)
    /\ [][opc[F] = "repos" =>
            /\ new_dataset' # new_dataset => Len(new_dataset) < number
            /\ opc'[F] = "check" =>
                  Len(new_dataset') >= Least(number, Len(total_ds))]_vars

\* A corpus of three, n = 1: the repository of two is taken whole, the
\* other one is left out, and the selection is written.
C12_Witness ==
    /\ scale_type = "repo"
    /\ opc[F] = "done"
    /\ wrote[F]
    /\ args_number = Frac(1, 1)
    /\ Len(total_ds) = 3
    /\ Cardinality(repo_names(total_ds)) = 2
    /\ Len(new_dataset) = 2

\* ------------------------------------------- claims on filter.py analyze_diff

\* The lines of the hunks of a diff that carry the sign.
RECURSIVE SignedLines(_, _)
SignedLines(files, sign) ==
    IF files = <<>>
      THEN 0
      ELSE Len(SelectSeq(files[1].hunk, LAMBDA l : l.sign = sign))
             + SignedLines(Tail(files), sign)

NewFileMarkers(files) == Len(SelectSeq(files, LAMBDA f : f.new))

\* C13: for the text of a diff with k added and m removed content lines and
\* j "new file mode" markers, whatever the content of those lines,
\* analyze_diff returns added_lines = k, deleted_lines = m, new_files = j;
\* for the empty text it returns zeros.
C13_StatsCountContentLines ==
    stats # Unset =>
        stats = [added_lines |-> SignedLines(diff_files, "+"),
                 deleted_lines |-> SignedLines(diff_files, "-"),
                 new_files |-> NewFileMarkers(diff_files)]

\* ------------------------------------- claims on sera/main.py: attributes

ArtifactRefs == DOMAIN NoAttrs

\* C14: at whatever stage a run resumes, every artifact reference a stage
\* reads from self (the stage-one and stage-two output dirs and instances
\* files, the report path) was assigned by an earlier stage of the same run:
\* no read finds the attribute unset.
C14_NoUnsetArtifactRead ==
    \A i \in DOMAIN reads :
        /\ reads[i].attr \in ArtifactRefs
        /\ reads[i].value # Unset

\* A run resumed at distill_stage_two on a fresh folder: generate and
\* stage one are skipped, and the later stages read all five references.
C14_Witness ==
    /\ pc = "done"
    /\ stage = "distill_stage_two"
    /\ {reads[i].attr : i \in DOMAIN reads} = ArtifactRefs

====
